---- MODULE Spec2Model ----
(***************************************************************************)
(* The data-acquisition functions of the NIFTY 200 dashboard (main.py):    *)
(* display_indices, get_top_gainers_losers / display_top_movers and        *)
(* get_nifty_200_tickers, run one after another by main().                 *)
(*                                                                         *)
(* The program is single-threaded: pc is the position of the running call. *)
(* The three retrievers share no state, so each is checked under its own   *)
(* specification (SpecIndices, SpecMovers, SpecTickers), whose initial     *)
(* states draw what the network will answer during the call.               *)
(***************************************************************************)
EXTENDS Integers, Sequences, FiniteSets, TLC

\* ------------------------------------------------------------------ bounds
MaxRows == 2      \* rows of the batched price frame
MaxRecs == 2      \* records in a feed's `data` list
MaxSyms == 2      \* rows of a table of the listing page
MaxTables == 2    \* tables of the listing page

\* ----------------------------------------------------------------- helpers
Range(s) == {s[i] : i \in DOMAIN s}

SeqsUpTo(S, n) == UNION {[1..k -> S] : k \in 0..n}

\* A float: NaN or a number.
NaN == [nan |-> TRUE, val |-> 0]
Num(x) == [nan |-> FALSE, val |-> x]

\* pandas arithmetic: NaN in, NaN out.
Sub(a, b) == IF a.nan \/ b.nan THEN NaN ELSE Num(a.val - b.val)

\* (changes / previous_closes) * 100 kept exact, as numerator and denominator.
Pct(change, prev) ==
    IF change.nan \/ prev.nan THEN [nan |-> TRUE, num |-> 0, den |-> 1]
    ELSE [nan |-> FALSE, num |-> change.val * 100, den |-> prev.val]

NoException == [fn |-> "none", type |-> "none"]
Raised(f, t) == [fn |-> f, type |-> t]

VARIABLES
    pc,              \* main's position
    st,              \* what streamlit has been asked to show (sections, messages)
    exception,       \* the exception that ended main, NoException while it runs
    requests_json_error_is_RequestException,
                     \* the installed requests: does response.json() raise
                     \* requests.exceptions.JSONDecodeError (a RequestException)?
    yf_history,      \* upstream: the batched price history of the basket
    indices_data,    \* display_indices: the frame yf.download returned
    index_data,      \* display_indices: the rows handed to st.dataframe
    gainers_feed,    \* upstream: the answer to the gainers request
    losers_feed,     \* upstream: the answer to the losers request
    movers_gets,     \* get_top_gainers_losers: the requests issued, in order
    gainers_df,      \* get_top_gainers_losers: first returned frame
    losers_df,       \* get_top_gainers_losers: second returned frame
    upstream,        \* listing page server: transport outcome of the i-th request
    listing_page,    \* listing page server: the tables of the page it serves
    attempt,         \* get_nifty_200_tickers: loop variable
    events,          \* get_nifty_200_tickers: "get" / "sleep", in order
    nifty_200_tickers \* main: the list get_nifty_200_tickers returned

vars == <<pc, st, exception, requests_json_error_is_RequestException,
          yf_history, indices_data, index_data,
          gainers_feed, losers_feed, movers_gets, gainers_df, losers_df,
          upstream, listing_page, attempt, events, nifty_200_tickers>>

indicesVars == <<yf_history, indices_data, index_data>>
moversVars == <<gainers_feed, losers_feed, movers_gets, gainers_df, losers_df>>
tickersVars == <<upstream, listing_page, attempt, events, nifty_200_tickers>>

\* ---------------------------------------------------------- display_indices
indices == <<"^NSEI", "^CNX200", "^BSESN", "^CNX500">>
indices_names == <<"NIFTY 50", "NIFTY 200", "SENSEX", "NIFTY 500">>

CloseValues == {NaN, Num(100), Num(102)}

\* indices_data['Close'] with at most n rows: one row per session, oldest
\* first; one column per symbol the download returned.
Frames(n) ==
    UNION {{[columns |-> c, Close |-> rows] :
                rows \in SeqsUpTo([c -> CloseValues], n)} :
           c \in SUBSET Range(indices)}

NoFrame == [columns |-> {}, Close |-> <<>>]

\* DataFrame.empty: no row or no column.
frame_empty(f) == Len(f.Close) = 0 \/ f.columns = {}

\* The loop of lines 112-118: rows appended in basket order; a symbol that is
\* no column of the frame raises KeyError and the rows built so far are lost.
RECURSIVE build_index_data(_, _, _, _)
build_index_data(i, latest_prices, previous_closes, acc) ==
    IF i > Len(indices) THEN [raises |-> "none", rows |-> acc]
    ELSE IF indices[i] \notin DOMAIN latest_prices
         THEN [raises |-> "KeyError", rows |-> <<>>]
    ELSE LET changes == Sub(latest_prices[indices[i]], previous_closes[indices[i]])
         IN  build_index_data(i + 1, latest_prices, previous_closes,
                Append(acc, [Index |-> indices_names[i],
                             LastTradedPrice |-> latest_prices[indices[i]],
                             Change |-> changes,
                             ChangePct |-> Pct(changes, previous_closes[indices[i]])]))

\* The body of display_indices after the download: what is shown and the rows.
display_indices_body(f) ==
    IF frame_empty(f) THEN [shown |-> "indices_warning", rows |-> <<>>]
    ELSE IF Len(f.Close) < 2
         THEN [shown |-> "indices_error", rows |-> <<>>]      \* iloc[-2]: IndexError
    ELSE LET r == build_index_data(1, f.Close[Len(f.Close)],
                                   f.Close[Len(f.Close) - 1], <<>>)
         IN  IF r.raises # "none" THEN [shown |-> "indices_error", rows |-> <<>>]
             ELSE [shown |-> "indices_table", rows |-> r.rows]

\* line 104: the batched download.
yf_download ==
    /\ pc = "display_indices"
    /\ indices_data' = yf_history
    /\ pc' = "indices_downloaded"
    /\ UNCHANGED <<st, exception, requests_json_error_is_RequestException,
                   yf_history, index_data, moversVars, tickersVars>>

\* lines 105-129.
display_indices ==
    /\ pc = "indices_downloaded"
    /\ LET r == display_indices_body(indices_data)
       IN  /\ index_data' = r.rows
           /\ st' = st \cup {r.shown}
    /\ pc' = "indices_returned"
    /\ UNCHANGED <<exception, requests_json_error_is_RequestException,
                   yf_history, indices_data, moversVars, tickersVars>>

\* ---------------------------------------------------- get_top_gainers_losers
\* Rows of a feed's `data` list (prices in hundredths).  The feed carries more
\* keys than the four the dashboard shows.
FeedRows ==
    {[symbol |-> "TCS", ltp |-> 350050, change |-> 2550, pChange |-> 73,
      openPrice |-> 347500],
     [symbol |-> "INFY", ltp |-> 150000, change |-> -1200, pChange |-> -79,
      openPrice |-> 151200]}

\* A response body: not JSON at all, a JSON array, or a JSON object with or
\* without the key `data`.
Bodies ==
    {[kind |-> k, has_data |-> FALSE, data |-> <<>>] :
        k \in {"malformed", "array", "object"}}
    \cup {[kind |-> "object", has_data |-> TRUE, data |-> d] :
            d \in SeqsUpTo(FeedRows, MaxRecs)}

NoBody == [kind |-> "malformed", has_data |-> FALSE, data |-> <<>>]

\* What a feed answers: "exc" the GET itself raises (connection, timeout),
\* "status" a non-2xx response, "ok" a 2xx response.
Feeds ==
    {[transport |-> "exc", body |-> NoBody]}
    \cup {[transport |-> t, body |-> b] : t \in {"status", "ok"}, b \in Bodies}

NoFeed == [transport |-> "none", body |-> NoBody]

\* response.raise_for_status(): does it raise HTTPError?
raise_for_status_never(resp) == FALSE
raise_for_status(resp) == resp.transport = "status"

\* response.json().get('data', []): the exception raised, or the list.
json_get_data(resp) ==
    IF resp.body.kind = "malformed" THEN [raises |-> "JSONDecodeError", data |-> <<>>]
    ELSE IF resp.body.kind = "array" THEN [raises |-> "AttributeError", data |-> <<>>]
    ELSE IF resp.body.has_data THEN [raises |-> "none", data |-> resp.body.data]
    ELSE [raises |-> "none", data |-> <<>>]

\* pd.DataFrame(list of dicts): one row per dict, in order.
DataFrame(data) == [i \in 1..Len(data) |-> data[i]]

\* `df.empty or len(df) == 0`
df_unavailable_never(df) == FALSE
df_unavailable(df) == Len(df) = 0

\* Is an exception of this type caught by `except RequestException` (line 92)?
is_RequestException(type, build) ==
    \/ type \in {"RequestException", "HTTPError"}
    \/ type = "JSONDecodeError" /\ build

\* The except clauses of lines 92-97 for an exception raised in the try body.
\* One that line 92 does not catch reaches line 95, whose expression
\* json.JSONDecodeError is evaluated with no `json` imported: NameError.
movers_except(type, build) ==
    IF is_RequestException(type, build)
    THEN [raises |-> "none", shown |-> "movers_error", gainers |-> <<>>, losers |-> <<>>]
    ELSE [raises |-> "NameError", shown |-> "none", gainers |-> <<>>, losers |-> <<>>]

\* Lines 74-90 once both responses are in, with the except clauses.
movers_try(g, l, build) ==
    IF raise_for_status(g) \/ raise_for_status(l)
    THEN movers_except("HTTPError", build)
    ELSE LET gd == json_get_data(g)
             ld == json_get_data(l)
         IN  IF gd.raises # "none" THEN movers_except(gd.raises, build)
             ELSE IF ld.raises # "none" THEN movers_except(ld.raises, build)
             ELSE IF df_unavailable(DataFrame(gd.data))
                  THEN [raises |-> "none", shown |-> "no_gainers_warning",
                        gainers |-> <<>>, losers |-> <<>>]
             ELSE IF df_unavailable(DataFrame(ld.data))
                  THEN [raises |-> "none", shown |-> "no_losers_warning",
                        gainers |-> <<>>, losers |-> <<>>]
             ELSE [raises |-> "none", shown |-> "none",
                   gainers |-> DataFrame(gd.data), losers |-> DataFrame(ld.data)]

\* The end of get_top_gainers_losers: a return, or an exception into the caller.
movers_exit(r) ==
    /\ gainers_df' = r.gainers
    /\ losers_df' = r.losers
    /\ st' = IF r.shown = "none" THEN st ELSE st \cup {r.shown}
    /\ exception' = IF r.raises = "none" THEN NoException
                    ELSE Raised("get_top_gainers_losers", r.raises)
    /\ pc' = IF r.raises = "none" THEN "movers_returned" ELSE "crashed"

\* line 71
get_gainers ==
    /\ pc = "get_top_gainers_losers"
    /\ movers_gets' = Append(movers_gets, "gainers")
    /\ IF gainers_feed.transport = "exc"
       THEN movers_exit(movers_except("RequestException",
                                      requests_json_error_is_RequestException))
       ELSE /\ pc' = "movers_get_losers"
            /\ UNCHANGED <<st, exception, gainers_df, losers_df>>
    /\ UNCHANGED <<requests_json_error_is_RequestException, indicesVars,
                   gainers_feed, losers_feed, tickersVars>>

\* line 72
get_losers ==
    /\ pc = "movers_get_losers"
    /\ movers_gets' = Append(movers_gets, "losers")
    /\ IF losers_feed.transport = "exc"
       THEN movers_exit(movers_except("RequestException",
                                      requests_json_error_is_RequestException))
       ELSE /\ pc' = "movers_fetched"
            /\ UNCHANGED <<st, exception, gainers_df, losers_df>>
    /\ UNCHANGED <<requests_json_error_is_RequestException, indicesVars,
                   gainers_feed, losers_feed, tickersVars>>

\* lines 74-97
get_top_gainers_losers ==
    /\ pc = "movers_fetched"
    /\ movers_exit(movers_try(gainers_feed, losers_feed,
                              requests_json_error_is_RequestException))
    /\ UNCHANGED <<requests_json_error_is_RequestException, indicesVars,
                   gainers_feed, losers_feed, movers_gets, tickersVars>>

\* lines 134-152: each non-empty frame gets its section.
display_top_movers ==
    /\ pc = "movers_returned"
    /\ st' = st \cup (IF Len(gainers_df) # 0 THEN {"Top 5 Gainers"} ELSE {})
                \cup (IF Len(losers_df) # 0 THEN {"Top 5 Losers"} ELSE {})
    /\ pc' = "movers_displayed"
    /\ UNCHANGED <<exception, requests_json_error_is_RequestException,
                   indicesVars, moversVars, tickersVars>>

\* ----------------------------------------------------- get_nifty_200_tickers
Tickers == {"TCS", "INFY"}

\* A table of the listing page: its columns.  Either the constituent table,
\* with its 'Symbol' column, or some other table.
Tables ==
    [{"Symbol"} -> SeqsUpTo(Tickers, MaxSyms)] \cup [{"Series"} -> {<<"EQ">>}]

\* The page the listing server serves on a 2xx answer: its tables in document
\* order.
Pages == SeqsUpTo(Tables, MaxTables)

\* range(3)
Attempts == 3

\* What the listing server does to a request: "exc" the GET raises, "status"
\* a non-2xx response (raise_for_status raises HTTPError), "ok" a 2xx one.
Transports == {"exc", "status", "ok"}

\* pd.read_html(text): the list of the page's tables; it never returns an
\* empty list, a page with no table raises ValueError("No tables found").
read_html(page) ==
    IF Len(page) = 0 THEN [raises |-> "ValueError", df |-> <<>>]
    ELSE [raises |-> "none", df |-> page]

\* time.sleep(5) at line 55: main.py imports no `time` (lines 1-17), so the
\* name lookup raises NameError and no delay is taken.
time_sleep == "NameError"

\* An exception leaves get_nifty_200_tickers; main does not catch it.
tickers_raise(type) ==
    /\ exception' = Raised("get_nifty_200_tickers", type)
    /\ pc' = "crashed"
    /\ UNCHANGED <<nifty_200_tickers, attempt>>

\* lines 43-44: one GET and its status check.
requests_get ==
    /\ pc = "get_nifty_200_tickers"
    /\ events' = Append(events, "get")
    /\ pc' = IF upstream[attempt + 1] = "ok" THEN "tickers_fetched"
                                             ELSE "tickers_except"
    /\ UNCHANGED <<st, exception, requests_json_error_is_RequestException,
                   indicesVars, moversVars, upstream, listing_page, attempt,
                   nifty_200_tickers>>

\* lines 45-50: parse the page and return.
tickers_parse ==
    /\ pc = "tickers_fetched"
    /\ LET r == read_html(listing_page)
       IN  IF r.raises # "none"
           THEN tickers_raise(r.raises) /\ UNCHANGED st
           ELSE IF Len(r.df) # 0
                THEN IF "Symbol" \in DOMAIN r.df[1]
                     THEN /\ nifty_200_tickers' = r.df[1]["Symbol"]
                          /\ pc' = "tickers_returned"
                          /\ UNCHANGED <<st, exception, attempt>>
                     ELSE tickers_raise("KeyError") /\ UNCHANGED st
                ELSE /\ st' = st \cup {"no_table_error"}
                     /\ nifty_200_tickers' = <<>>
                     /\ pc' = "tickers_returned"
                     /\ UNCHANGED <<exception, attempt>>
    /\ UNCHANGED <<requests_json_error_is_RequestException, indicesVars,
                   moversVars, upstream, listing_page, events>>

\* lines 51-56: the handler of a failed attempt, the delay, and the end of the
\* loop.
tickers_except ==
    /\ pc = "tickers_except"
    /\ st' = st \cup {"fetch_error"}
    /\ IF attempt < Attempts - 1
       THEN IF time_sleep # "none"
            THEN tickers_raise(time_sleep) /\ UNCHANGED events
            ELSE /\ events' = Append(events, "sleep")
                 /\ attempt' = attempt + 1
                 /\ pc' = "get_nifty_200_tickers"
                 /\ UNCHANGED <<exception, nifty_200_tickers>>
       ELSE /\ nifty_200_tickers' = <<>>
            /\ pc' = "tickers_returned"
            /\ UNCHANGED <<exception, attempt, events>>
    /\ UNCHANGED <<requests_json_error_is_RequestException, indicesVars,
                   moversVars, upstream, listing_page>>

\* lines 207-211 of main.
main_select ==
    /\ pc = "tickers_returned"
    /\ st' = st \cup (IF Len(nifty_200_tickers) # 0 THEN {"selectbox"}
                                                    ELSE {"no_list_warning"})
    /\ pc' = "done"
    /\ UNCHANGED <<exception, requests_json_error_is_RequestException,
                   indicesVars, moversVars, tickersVars>>

\* ----------------------------------------------------------- specifications

\* main line 201: display_indices() against any price history.
InitIndices ==
    /\ pc = "display_indices"
    /\ st = {}
    /\ exception = NoException
    /\ requests_json_error_is_RequestException = TRUE
    /\ yf_history \in Frames(MaxRows)
    /\ indices_data = NoFrame
    /\ index_data = <<>>
    /\ gainers_feed = NoFeed
    /\ losers_feed = NoFeed
    /\ movers_gets = <<>>
    /\ gainers_df = <<>>
    /\ losers_df = <<>>
    /\ upstream = [i \in 1..Attempts |-> "ok"]
    /\ listing_page = <<>>
    /\ attempt = 0
    /\ events = <<>>
    /\ nifty_200_tickers = <<>>

NextIndices == yf_download \/ display_indices

SpecIndices == InitIndices /\ [][NextIndices]_vars

\* main line 202: display_top_movers() against any pair of feeds and either
\* kind of requests library.
InitMovers ==
    /\ pc = "get_top_gainers_losers"
    /\ st = {}
    /\ exception = NoException
    /\ requests_json_error_is_RequestException \in BOOLEAN
    /\ yf_history = NoFrame
    /\ indices_data = NoFrame
    /\ index_data = <<>>
    /\ gainers_feed \in Feeds
    /\ losers_feed \in Feeds
    /\ movers_gets = <<>>
    /\ gainers_df = <<>>
    /\ losers_df = <<>>
    /\ upstream = [i \in 1..Attempts |-> "ok"]
    /\ listing_page = <<>>
    /\ attempt = 0
    /\ events = <<>>
    /\ nifty_200_tickers = <<>>

NextMovers == get_gainers \/ get_losers \/ get_top_gainers_losers \/ display_top_movers

SpecMovers == InitMovers /\ [][NextMovers]_vars

\* main lines 206-211: get_nifty_200_tickers() against any listing server.
InitTickers ==
    /\ pc = "get_nifty_200_tickers"
    /\ st = {}
    /\ exception = NoException
    /\ requests_json_error_is_RequestException = TRUE
    /\ yf_history = NoFrame
    /\ indices_data = NoFrame
    /\ index_data = <<>>
    /\ gainers_feed = NoFeed
    /\ losers_feed = NoFeed
    /\ movers_gets = <<>>
    /\ gainers_df = <<>>
    /\ losers_df = <<>>
    /\ upstream \in [1..Attempts -> Transports]
    /\ listing_page \in Pages
    /\ attempt = 0
    /\ events = <<>>
    /\ nifty_200_tickers = <<>>

NextTickers == requests_get \/ tickers_parse \/ tickers_except \/ main_select

SpecTickers == InitTickers /\ [][NextTickers]_vars

\* ------------------------------------------------------------------ claims
failed(t) == t \in {"exc", "status"}

\* get_nifty_200_tickers has returned or raised.
TickersCallOver == pc \in {"tickers_returned", "done", "crashed"}

Count(seq, x) == Cardinality({i \in DOMAIN seq : seq[i] = x})

GetCount == Count(events, "get")

FirstTableHasSymbol == Len(listing_page) >= 1 /\ "Symbol" \in DOMAIN listing_page[1]

\* C1: when the listing server fails the 1st and 2nd requests and answers the
\* 3rd with a page whose first table has a 'Symbol' column, the call returns
\* normally with exactly that column, in order.
C1_RetrySucceeds ==
    (/\ TickersCallOver
     /\ failed(upstream[1]) /\ failed(upstream[2]) /\ upstream[3] = "ok"
     /\ FirstTableHasSymbol)
    => (/\ exception = NoException
        /\ GetCount = 3
        /\ nifty_200_tickers = listing_page[1]["Symbol"])

\* C2: a call never issues more than 3 GET requests, and when the server fails
\* all 3 the call issues exactly 3 and returns an empty list.
C2_ThreeFailuresReturnEmpty ==
    /\ GetCount <= 3
    /\ (TickersCallOver /\ \A i \in 1..3 : failed(upstream[i]))
       => (/\ exception = NoException
           /\ GetCount = 3
           /\ nifty_200_tickers = <<>>)

\* C3: whatever the listing server answers, no exception leaves
\* get_nifty_200_tickers into main.
C3_NeverRaises == exception.fn # "get_nifty_200_tickers"

\* C7: the first attempt whose fetch succeeds is the last GET of the call: every
\* earlier GET failed, a first table with a 'Symbol' column is returned as the
\* result, and a page with no table makes the call return an empty list.
C7_FirstSuccessEndsCall ==
    (TickersCallOver /\ GetCount >= 1 /\ upstream[GetCount] = "ok")
    => (/\ \A k \in 1..(GetCount - 1) : failed(upstream[k])
        /\ FirstTableHasSymbol
           => (/\ exception = NoException
               /\ nifty_200_tickers = listing_page[1]["Symbol"])
        /\ Len(listing_page) = 0
           => (exception = NoException /\ nifty_200_tickers = <<>>))

\* C10: a 5-second delay follows a failed 1st attempt and a failed 2nd attempt,
\* each before the next GET; nothing follows the last GET; at most 2 delays.
C10_DelayBetweenAttempts ==
    TickersCallOver
    => (/\ failed(upstream[1])
           => (Len(events) >= 3 /\ events[2] = "sleep" /\ events[3] = "get")
        /\ (failed(upstream[1]) /\ failed(upstream[2]))
           => (Len(events) >= 5 /\ events[4] = "sleep" /\ events[5] = "get")
        /\ Count(events, "sleep") <= 2
        /\ Len(events) >= 1 /\ events[Len(events)] = "get")

\* get_top_gainers_losers has returned or raised.
MoversCallOver == pc \in {"movers_returned", "movers_displayed", "crashed"}

HasRows(feed) ==
    feed.body.kind = "object" /\ feed.body.has_data /\ Len(feed.body.data) >= 1

HasEmptyData(feed) ==
    feed.body.kind = "object" /\ feed.body.has_data /\ Len(feed.body.data) = 0

\* C4: when the gainers request or the losers request fails in transport (the
\* GET raises, or the status is not 2xx), the call returns normally with two
\* empty tables, whatever the other feed answered.
C4_FailureEmptiesBoth ==
    (MoversCallOver /\ (failed(gainers_feed.transport) \/ failed(losers_feed.transport)))
    => (/\ exception = NoException
        /\ gainers_df = <<>>
        /\ losers_df = <<>>)

\* C4 happens: the gainers feed answered non-2xx with rows in its body, the
\* losers feed answered 2xx with rows, both requests were issued, and the call
\* returned.
C4_Witness ==
    /\ pc = "movers_returned"
    /\ gainers_feed.transport = "status" /\ HasRows(gainers_feed)
    /\ losers_feed.transport = "ok" /\ HasRows(losers_feed)
    /\ movers_gets = <<"gainers", "losers">>

\* Both requests succeeded, the gainers feed has rows, the losers feed has an
\* empty `data` list, and the call is over.
C5_Case ==
    /\ MoversCallOver
    /\ gainers_feed.transport = "ok" /\ HasRows(gainers_feed)
    /\ losers_feed.transport = "ok" /\ HasEmptyData(losers_feed)

\* C5 as claimed: in that case the call returns one gainers row per element of
\* the gainers `data` list, with an empty losers table.
C5_GainersSurviveEmptyLosers ==
    C5_Case
    => (/\ exception = NoException
        /\ Len(gainers_df) = Len(gainers_feed.body.data)
        /\ \A i \in DOMAIN gainers_df : gainers_df[i] = gainers_feed.body.data[i]
        /\ losers_df = <<>>)

\* C5 as amended: in that case the call warns that no losers data is available
\* and returns two empty tables: an empty losers feed empties the gainers too.
C5_EmptyLosersEmptyBoth ==
    C5_Case
    => (/\ exception = NoException
        /\ "no_losers_warning" \in st
        /\ gainers_df = <<>>
        /\ losers_df = <<>>)

\* C5 happens: the case, right after the return.
C5_Witness == C5_Case /\ pc = "movers_returned" /\ Len(gainers_feed.body.data) = MaxRecs

\* The body of either response is not valid JSON while both requests succeeded.
C8_Case ==
    /\ MoversCallOver
    /\ gainers_feed.transport = "ok" /\ losers_feed.transport = "ok"
    /\ (gainers_feed.body.kind = "malformed" \/ losers_feed.body.kind = "malformed")

Observations(f, y) ==
    IF y \in f.columns
    THEN Cardinality({r \in DOMAIN f.Close : ~ f.Close[r][y].nan})
    ELSE 0

\* The display names of the rows shown, in order.
ShownNames == [i \in DOMAIN index_data |-> index_data[i].Index]

\* C6: a basket symbol with fewer than 2 observations gets no snapshot, every
\* other member with at least 2 observations gets one, and no snapshot carries
\* a change computed from an undefined close.
C6_ShortSeriesOmitted ==
    pc = "indices_returned"
    => (/\ \A i \in DOMAIN indices :
              Observations(indices_data, indices[i]) < 2
              => /\ indices_names[i] \notin Range(ShownNames)
                 /\ \A j \in DOMAIN indices :
                       Observations(indices_data, indices[j]) >= 2
                       => indices_names[j] \in Range(ShownNames)
        /\ \A k \in DOMAIN index_data :
              ~ index_data[k].Change.nan /\ ~ index_data[k].ChangePct.nan)

\* The basket positions whose symbol is a column of frame f, in basket order.
PresentPositions(f) ==
    SelectSeq([i \in DOMAIN indices |-> i], LAMBDA i : indices[i] \in f.columns)

\* C9: when the frame has at least 2 rows but lacks the column of some basket
\* symbol, the rows shown are exactly those of the members that are present,
\* in basket order.
C9_AbsentSymbolSkipped ==
    (/\ pc = "indices_returned"
     /\ Len(indices_data.Close) >= 2
     /\ indices_data.columns # {}
     /\ indices_data.columns # Range(indices))
    => ShownNames = [k \in DOMAIN PresentPositions(indices_data) |->
                        indices_names[PresentPositions(indices_data)[k]]]

====
